---------------------------- MODULE Spec2Model ----------------------------
(***************************************************************************)
(* HerSafe API (src/main.py): a FastAPI relay in front of a chat           *)
(* completion provider.  One uvicorn process runs one event loop; every    *)
(* endpoint is an `async def` coroutine without an await, so a handler     *)
(* runs on the loop from dispatch to return, the blocking requests.post    *)
(* included.                                                               *)
(*                                                                         *)
(* Text is modelled as a sequence of characters where the code looks       *)
(* inside it (place names, the upstream body) and as a TLA+ string where   *)
(* it only compares it (feature, credential).  An Optional value is <<>>   *)
(* for None and <<v>> for a present v.  The wall clock is its hour.        *)
(***************************************************************************)
EXTENDS Integers, Sequences, FiniteSets, TLC

VARIABLES clock,     \* the wall clock datetime.now() reads: the hour, 0..23
          ticks,     \* hour changes so far
          pending,   \* kind -> connections accepted and not yet dispatched
          pc,        \* where the event loop is
          req,       \* the request the loop is running
          hour,      \* get_safety_status: local `hour`
          safety,    \* the 4-tuple get_safety_status returned
          call,      \* call_groq_api: its arguments
          messages,  \* call_groq_api: the `messages` list
          sent,      \* requests.post calls made for the running request
          reply,     \* what requests.post produced
          resp,      \* the HTTP response of the running request
          link       \* create_google_maps_link: its result

vars == <<clock, ticks, pending, pc, req, hour, safety, call, messages,
          sent, reply, resp, link>>

-----------------------------------------------------------------------------
(* Bounds *)

MaxTicks == 2
MaxPending == 1
MaxHist == 15
MaxBody == 201
MaxName == 2

(* Program constants *)

HistoryCap == 10
ExcerptLen == 200
TimeoutSeconds == 30
HoursPerDay == 24

None == <<>>
Some(v) == <<v>>

Hours == 0 .. (HoursPerDay - 1)

Min(a, b) == IF a < b THEN a ELSE b

-----------------------------------------------------------------------------
(* datetime.now().strftime('%I:%M %p, ...'): the 12-hour clock and AM/PM.  *)

strftime(h) ==
    [I |-> IF h % 12 = 0 THEN 12 ELSE h % 12,
     p |-> IF h < 12 THEN "AM" ELSE "PM"]

(* The hour a formatted timestamp shows. *)
HourOf(ts) == (ts.I % 12) + (IF ts.p = "PM" THEN 12 ELSE 0)

-----------------------------------------------------------------------------
(* get_safety_status, lines 73-79: the rule ladder on the local `hour`,    *)
(* with the timestamp that was read separately.                            *)

get_safety_status_swapped(h, timestamp) ==
    IF h >= 20 \/ h <= 6
    THEN <<"CAUTION", "orange", "Night time - Use well-lit roads, inform someone", timestamp>>
    ELSE IF h >= 22 \/ h <= 5
    THEN <<"HIGH ALERT", "red", "Very late/early hours - Avoid travel if possible", timestamp>>
    ELSE IF h >= 18
    THEN <<"MODERATE", "yellow", "Evening - Stay on busy streets", timestamp>>
    ELSE <<"SAFE", "green", "Daytime - Generally safer, stay alert", timestamp>>

get_safety_status(h, timestamp) ==
    IF h >= 22 \/ h <= 5
    THEN <<"HIGH ALERT", "red", "Very late/early hours - Avoid travel if possible", timestamp>>
    ELSE IF h >= 20 \/ h <= 6
    THEN <<"CAUTION", "orange", "Night time - Use well-lit roads, inform someone", timestamp>>
    ELSE IF h >= 18
    THEN <<"MODERATE", "yellow", "Evening - Stay on busy streets", timestamp>>
    ELSE <<"SAFE", "green", "Daytime - Generally safer, stay alert", timestamp>>

-----------------------------------------------------------------------------
(* get_system_prompt: the base block (with the clock reading) and the      *)
(* focus block chosen by exact match on the feature; each focus block is   *)
(* named by its first line.  A None feature compares unequal to every      *)
(* literal and takes the else branch.                                      *)

get_system_prompt_nocase(feature, now) ==
    LET base == [time |-> strftime(now)]
        f == IF feature = Some("Legal") THEN Some("legal") ELSE feature
    IN  IF f = Some("legal")
        THEN [base |-> base, focus |-> "FOCUS: Legal Rights & Harassment Laws"]
        ELSE IF f = Some("mental")
        THEN [base |-> base, focus |-> "FOCUS: Mental Health & Trauma Support"]
        ELSE IF f = Some("route")
        THEN [base |-> base, focus |-> "FOCUS: Route Safety & Navigation"]
        ELSE IF f = Some("sos")
        THEN [base |-> base, focus |-> "FOCUS: Emergency SOS Protocol"]
        ELSE [base |-> base, focus |-> "FOCUS: General Women's Safety Assistant"]

get_system_prompt(feature, now) ==
    LET base == [time |-> strftime(now)]
    IN  IF feature = Some("legal")
        THEN [base |-> base, focus |-> "FOCUS: Legal Rights & Harassment Laws"]
        ELSE IF feature = Some("mental")
        THEN [base |-> base, focus |-> "FOCUS: Mental Health & Trauma Support"]
        ELSE IF feature = Some("route")
        THEN [base |-> base, focus |-> "FOCUS: Route Safety & Navigation"]
        ELSE IF feature = Some("sos")
        THEN [base |-> base, focus |-> "FOCUS: Emergency SOS Protocol"]
        ELSE [base |-> base, focus |-> "FOCUS: General Women's Safety Assistant"]

-----------------------------------------------------------------------------
(* call_groq_api, lines 152-159: the message list.                         *)

(* history[:10], the first entries instead of the last *)
HistoryHead(history) == SubSeq(history, 1, Min(Len(history), HistoryCap))

(* history[-10:] *)
HistoryTail(history) ==
    SubSeq(history,
           IF Len(history) > HistoryCap THEN Len(history) - HistoryCap + 1 ELSE 1,
           Len(history))

BuildMessages(message, history, feature, now) ==
    LET tail == HistoryTail(history)
    IN  <<[role |-> "system", content |-> get_system_prompt(feature, now)]>>
        \o [i \in 1 .. Len(tail) |-> [role |-> tail[i].role, content |-> tail[i].content]]
        \o <<[role |-> "user", content |-> message]>>

-----------------------------------------------------------------------------
(* create_google_maps_link, lines 188-192.                                 *)

RECURSIVE replace_first(_, _, _)
(* str.replace(old, new, 1): only the first occurrence *)
replace_first(s, old, new) ==
    IF s = <<>> THEN <<>>
    ELSE IF Head(s) = old THEN <<new>> \o Tail(s)
    ELSE <<Head(s)>> \o replace_first(Tail(s), old, new)

(* str.replace(old, new) for one-character old and new *)
replace(s, old, new) == [i \in 1 .. Len(s) |-> IF s[i] = old THEN new ELSE s[i]]

LinkPrefix ==
    <<"h", "t", "t", "p", "s", ":", "/", "/", "w", "w", "w", ".", "g", "o", "o",
      "g", "l", "e", ".", "c", "o", "m", "/", "m", "a", "p", "s", "/", "d", "i",
      "r", "/", "?", "a", "p", "i", "=", "1", "&", "o", "r", "i", "g", "i", "n", "=">>

CitySuffix ==
    <<",", "+", "C", "h", "i", "t", "t", "a", "g", "o", "n", "g", ",", "+", "B",
      "a", "n", "g", "l", "a", "d", "e", "s", "h">>

DestinationKey ==
    <<"&", "d", "e", "s", "t", "i", "n", "a", "t", "i", "o", "n", "=">>

TravelMode ==
    <<"&", "t", "r", "a", "v", "e", "l", "m", "o", "d", "e", "=", "w", "a", "l",
      "k", "i", "n", "g">>

create_google_maps_link_first(start, end) ==
    LET start_encoded == replace_first(start, " ", "+") \o CitySuffix
        end_encoded == replace_first(end, " ", "+") \o CitySuffix
    IN  LinkPrefix \o start_encoded \o DestinationKey \o end_encoded \o TravelMode

create_google_maps_link(start, end) ==
    LET start_encoded == replace(start, " ", "+") \o CitySuffix
        end_encoded == replace(end, " ", "+") \o CitySuffix
    IN  LinkPrefix \o start_encoded \o DestinationKey \o end_encoded \o TravelMode

-----------------------------------------------------------------------------
(* Responses and exceptions.                                               *)

NoResp == [status |-> 0, detail |-> <<>>, body |-> <<>>]

(* FastAPI's rendering of a raised HTTPException *)
HTTPError(status_code, detail) == [status |-> status_code, detail |-> detail, body |-> <<>>]

OK(body) == [status |-> 200, detail |-> <<>>, body |-> body]

(* str(e): Starlette's HTTPException prints "{status_code}: {detail}", any *)
(* other exception its message.                                            *)
StrOf(e) ==
    IF e.type = "HTTPException" THEN <<e.status_code, ": ">> \o e.detail
    ELSE <<e.msg>>

(* response.text[:200] *)
Excerpt(text) == SubSeq(text, 1, Min(Len(text), ExcerptLen))

(* The except clauses in the order `except Exception` first: Timeout is    *)
(* never reached.                                                          *)
Except_generic(e) == HTTPError(500, StrOf(e))

(* Lines 183-186: the except clauses of call_groq_api.  HTTPException and  *)
(* every requests exception are subclasses of Exception; only              *)
(* requests.exceptions.Timeout matches the first clause.                   *)
Except(e) ==
    IF e.type = "Timeout" THEN HTTPError(504, <<"Request timeout">>)
    ELSE HTTPError(500, StrOf(e))

(* Lines 177-181, inside the try block: the value returned or the          *)
(* exception raised on an HTTP reply.                                      *)
OnReply(r) ==
    IF r.status_code = 200
    THEN IF r.content = None
         THEN [ok |-> FALSE,
               exc |-> [type |-> "JSONDecodeError", msg |-> "Expecting value"]]
         ELSE [ok |-> TRUE, value |-> r.content[1]]
    ELSE [ok |-> FALSE,
          exc |-> [type |-> "HTTPException", status_code |-> r.status_code,
                   detail |-> <<"Groq API Error: ", Excerpt(r.text)>>]]

-----------------------------------------------------------------------------
(* Inputs.                                                                 *)

Kinds == {"chat", "route", "status", "health"}

Keys == {"", "gsk_key"}

NewMarket == <<"N", "e", "w", " ", "M", "a", "r", "k", "e", "t">>
GECCircle == <<"G", "E", "C", " ", "C", "i", "r", "c", "l", "e">>

Places == {<<>>, NewMarket, GECCircle}

(* A history of n turns, each turn distinct. *)
History(n) ==
    [i \in 1 .. n |->
        [role |-> IF i % 2 = 1 THEN "user" ELSE "assistant", content |-> <<"turn", i>>]]

HistLens == {0, 1, HistoryCap - 1, HistoryCap, HistoryCap + 1, MaxHist}

(* ChatRequest.history is Optional[List[ChatMessage]]: null is accepted. *)
Histories == {None} \cup {Some(History(n)) : n \in HistLens}

(* ChatRequest.feature is Optional[str]. *)
Features ==
    {None, Some("assistant"), Some("legal"), Some("mental"), Some("route"),
     Some("sos"), Some(""), Some("xyz"), Some("Legal")}

ServerFeatures == {None, Some("legal"), Some("xyz")}

ChatRequests ==
    [kind : {"chat"}, message : {<<"hello">>}, history : Histories,
     feature : ServerFeatures, groq_api_key : Keys]

RouteRequests ==
    [kind : {"route"}, start_location : Places, end_location : Places,
     groq_api_key : Keys]

(* An upstream body of n characters, the i-th being i. *)
Body(n) == [i \in 1 .. n |-> i]

BodyLens == {0, ExcerptLen, MaxBody}

NonOK == {401, 503}

(* What the provider can answer: 200 with a completion, 200 with a body    *)
(* that is not the expected JSON, or another status with some body.        *)
Replies ==
    {[kind |-> "http", status_code |-> 200, text |-> <<>>, content |-> c] :
        c \in {None, Some(<<"answer">>)}}
    \cup
    {[kind |-> "http", status_code |-> c, text |-> Body(n), content |-> None] :
        c \in NonOK, n \in BodyLens}

NoReq == [kind |-> "none"]
NoReply == [kind |-> "none"]
NoCall == [kind |-> "none"]
NoSafety == <<>>

-----------------------------------------------------------------------------
(* Lines 239 and 257-261: the handlers' validation; <<>> when it passes.   *)

route_safety_invalid_and(r) ==
    IF r.start_location = <<>> /\ r.end_location = <<>>
    THEN <<"Both start and end locations are required">>
    ELSE IF r.groq_api_key = "" THEN <<"Groq API key is required">>
    ELSE <<>>

chat_invalid(r) ==
    IF r.groq_api_key = "" THEN <<"Groq API key is required">> ELSE <<>>

route_safety_invalid(r) ==
    IF r.start_location = <<>> \/ r.end_location = <<>>
    THEN <<"Both start and end locations are required">>
    ELSE IF r.groq_api_key = "" THEN <<"Groq API key is required">>
    ELSE <<>>

(* Lines 266-275: the analysis prompt of /route-safety. *)
RoutePrompt(r, now) ==
    <<"Analyze the safety of this route in Chittagong:", r.start_location,
      r.end_location, strftime(now)>>

-----------------------------------------------------------------------------
Init ==
    /\ clock \in Hours
    /\ ticks = 0
    /\ pending = [k \in Kinds |-> 0]
    /\ pc = "idle"
    /\ req = NoReq
    /\ hour = 0
    /\ safety = NoSafety
    /\ call = NoCall
    /\ messages = <<>>
    /\ sent = 0
    /\ reply = NoReply
    /\ resp = NoResp
    /\ link = <<>>

PendingTotal == pending["chat"] + pending["route"] + pending["status"] + pending["health"]

(* The server accepts a connection; it waits for the event loop. *)
Arrive(k) ==
    /\ PendingTotal < MaxPending
    /\ pending' = [pending EXCEPT ![k] = @ + 1]
    /\ UNCHANGED <<clock, ticks, pc, req, hour, safety, call, messages, sent,
                   reply, resp, link>>

(* The wall clock passes an hour boundary. *)
Tick ==
    /\ ticks < MaxTicks
    /\ ticks' = ticks + 1
    /\ clock' = (clock + 1) % HoursPerDay
    /\ UNCHANGED <<pending, pc, req, hour, safety, call, messages, sent,
                   reply, resp, link>>

(* call_groq_api up to and including requests.post (lines 150-175): the    *)
(* message list is built, and the request goes out unless building it      *)
(* raised; history[-10:] on None raises TypeError, caught at line 185.     *)
EnterCall(message, history, feature) ==
    /\ call' = [kind |-> "call", message |-> message, history |-> history,
                feature |-> feature]
    /\ IF history = None
       THEN /\ resp' = Except([type |-> "TypeError",
                               msg |-> "'NoneType' object is not subscriptable"])
            /\ pc' = "done"
            /\ UNCHANGED <<messages, sent>>
       ELSE /\ messages' = BuildMessages(message, history[1], feature, clock)
            /\ sent' = sent + 1
            /\ pc' = "inflight"
            /\ UNCHANGED resp

(* POST /chat, lines 228-247, up to the outbound call. *)
Chat(r) ==
    /\ pc = "idle"
    /\ pending["chat"] > 0
    /\ pending' = [pending EXCEPT !["chat"] = @ - 1]
    /\ req' = r
    /\ IF chat_invalid(r) # <<>>
       THEN /\ resp' = HTTPError(400, chat_invalid(r))
            /\ pc' = "done"
            /\ UNCHANGED <<call, messages, sent>>
       ELSE EnterCall(r.message, r.history, r.feature)
    /\ UNCHANGED <<clock, ticks, hour, safety, reply, link>>

(* POST /route-safety, lines 255-263 and line 70: validation, then the     *)
(* first clock read of get_safety_status.                                  *)
RouteSafety(r) ==
    /\ pc = "idle"
    /\ pending["route"] > 0
    /\ pending' = [pending EXCEPT !["route"] = @ - 1]
    /\ req' = r
    /\ IF route_safety_invalid(r) # <<>>
       THEN /\ resp' = HTTPError(400, route_safety_invalid(r))
            /\ pc' = "done"
            /\ UNCHANGED hour
       ELSE /\ hour' = clock
            /\ pc' = "get_safety_status"
            /\ UNCHANGED resp
    /\ UNCHANGED <<clock, ticks, safety, call, messages, sent, reply, link>>

(* /route-safety, line 71 (the second clock read), lines 73-79, then       *)
(* lines 266-277 up to the outbound call.                                  *)
RouteSafetyCall ==
    /\ pc = "get_safety_status"
    /\ req.kind = "route"
    /\ safety' = get_safety_status(hour, strftime(clock))
    /\ EnterCall(RoutePrompt(req, clock), Some(<<>>), Some("route"))
    /\ UNCHANGED <<clock, ticks, pending, req, hour, reply, link>>

(* GET /safety-status, line 211 into line 70: the first clock read. *)
SafetyStatus ==
    /\ pc = "idle"
    /\ pending["status"] > 0
    /\ pending' = [pending EXCEPT !["status"] = @ - 1]
    /\ req' = [kind |-> "status"]
    /\ hour' = clock
    /\ pc' = "get_safety_status"
    /\ UNCHANGED <<clock, ticks, safety, call, messages, sent, reply, resp, link>>

(* GET /safety-status, line 71 (the second clock read), lines 73-79 and    *)
(* lines 211-217.                                                          *)
SafetyStatusReturn ==
    /\ pc = "get_safety_status"
    /\ req.kind = "status"
    /\ LET s == get_safety_status(hour, strftime(clock))
       IN  /\ safety' = s
           /\ resp' = OK([status |-> s[1], color |-> s[2], advice |-> s[3],
                          timestamp |-> s[4]])
    /\ pc' = "done"
    /\ UNCHANGED <<clock, ticks, pending, req, hour, call, messages, sent,
                   reply, link>>

(* GET /health, lines 296-298. *)
HealthCheck ==
    /\ pc = "idle"
    /\ pending["health"] > 0
    /\ pending' = [pending EXCEPT !["health"] = @ - 1]
    /\ req' = [kind |-> "health"]
    /\ resp' = OK([status |-> "healthy", timestamp |-> clock])
    /\ pc' = "done"
    /\ UNCHANGED <<clock, ticks, hour, safety, call, messages, sent, reply, link>>

(* Lines 249-252 and 278-293: the handler's return after call_groq_api     *)
(* returned the completion text.                                           *)
Return(ai_response) ==
    IF req.kind = "chat"
    THEN /\ resp' = OK([response |-> ai_response, timestamp |-> strftime(clock)])
         /\ UNCHANGED link
    ELSE LET maps_link == create_google_maps_link(req.start_location, req.end_location)
         IN  /\ link' = maps_link
             /\ resp' = OK([analysis |-> <<req.start_location, req.end_location,
                                           strftime(clock), safety[1], safety[3],
                                           ai_response>>,
                            maps_link |-> maps_link,
                            safety_status |-> safety[1],
                            timestamp |-> safety[4]])

(* requests.post returns an HTTP reply: lines 177-181, and the except      *)
(* clauses when the try block raises.                                      *)
Respond(r) ==
    /\ pc = "inflight"
    /\ reply' = r
    /\ LET res == OnReply(r)
       IN  IF res.ok
           THEN Return(res.value)
           ELSE resp' = Except(res.exc) /\ UNCHANGED link
    /\ pc' = "done"
    /\ UNCHANGED <<clock, ticks, pending, req, hour, safety, call, messages, sent>>

(* requests.post raises requests.exceptions.Timeout after 30 seconds. *)
Timeout ==
    /\ pc = "inflight"
    /\ reply' = [kind |-> "timeout", after |-> TimeoutSeconds]
    /\ resp' = Except([type |-> "Timeout", msg |-> "Read timed out."])
    /\ pc' = "done"
    /\ UNCHANGED <<clock, ticks, pending, req, hour, safety, call, messages,
                   sent, link>>

(* requests.post raises another exception (no connection, a bad header). *)
TransportError ==
    /\ pc = "inflight"
    /\ reply' = [kind |-> "transport"]
    /\ resp' = Except([type |-> "ConnectionError", msg |-> "Connection refused"])
    /\ pc' = "done"
    /\ UNCHANGED <<clock, ticks, pending, req, hour, safety, call, messages,
                   sent, link>>

(* The response is written; the handler's locals are gone and the loop     *)
(* takes the next request.                                                 *)
Finish ==
    /\ pc = "done"
    /\ pc' = "idle"
    /\ req' = NoReq
    /\ hour' = 0
    /\ safety' = NoSafety
    /\ call' = NoCall
    /\ messages' = <<>>
    /\ sent' = 0
    /\ reply' = NoReply
    /\ resp' = NoResp
    /\ link' = <<>>
    /\ UNCHANGED <<clock, ticks, pending>>

Next ==
    \/ \E k \in Kinds : Arrive(k)
    \/ Tick
    \/ \E r \in ChatRequests : Chat(r)
    \/ \E r \in RouteRequests : RouteSafety(r)
    \/ RouteSafetyCall
    \/ SafetyStatus
    \/ SafetyStatusReturn
    \/ HealthCheck
    \/ \E r \in Replies : Respond(r)
    \/ Timeout
    \/ TransportError
    \/ Finish

Spec == Init /\ [][Next]_vars

-----------------------------------------------------------------------------
(* The prompt composer on its own: get_system_prompt applied to every      *)
(* feature value at every clock reading.                                   *)

InitPrompt ==
    /\ clock \in Hours
    /\ ticks = 0
    /\ pending = [k \in Kinds |-> 0]
    /\ pc = "idle"
    /\ req \in [kind : {"prompt"}, feature : Features]
    /\ hour = 0
    /\ safety = NoSafety
    /\ call = NoCall
    /\ messages = <<>>
    /\ sent = 0
    /\ reply = NoReply
    /\ resp = NoResp
    /\ link = <<>>

(* Line 152: the system message; `hour` keeps the clock reading used. *)
ComposePrompt ==
    /\ pc = "idle"
    /\ req.kind = "prompt"
    /\ hour' = clock
    /\ messages' = <<[role |-> "system", content |-> get_system_prompt(req.feature, clock)]>>
    /\ pc' = "done"
    /\ UNCHANGED <<clock, ticks, pending, req, safety, call, sent, reply, resp, link>>

NextPrompt == ComposePrompt \/ Tick

SpecPrompt == InitPrompt /\ [][NextPrompt]_vars

-----------------------------------------------------------------------------
(* The route link builder on its own: create_google_maps_link applied to   *)
(* every pair of place names over a small alphabet.                        *)

Alphabet == {" ", "a", "+", "&"}

Names == UNION {[1 .. n -> Alphabet] : n \in 0 .. MaxName} \cup {NewMarket, GECCircle}

InitLink ==
    /\ clock = 0
    /\ ticks = 0
    /\ pending = [k \in Kinds |-> 0]
    /\ pc = "idle"
    /\ req \in [kind : {"link"}, start : Names, end : Names]
    /\ hour = 0
    /\ safety = NoSafety
    /\ call = NoCall
    /\ messages = <<>>
    /\ sent = 0
    /\ reply = NoReply
    /\ resp = NoResp
    /\ link = <<>>

(* Line 278: the call of create_google_maps_link. *)
CreateLink ==
    /\ pc = "idle"
    /\ req.kind = "link"
    /\ link' = create_google_maps_link(req.start, req.end)
    /\ pc' = "done"
    /\ UNCHANGED <<clock, ticks, pending, req, hour, safety, call, messages,
                   sent, reply, resp>>

NextLink == CreateLink

SpecLink == InitLink /\ [][NextLink]_vars

-----------------------------------------------------------------------------
(* Properties.                                                             *)

(* The running request fails the validation the interface documents. *)
Invalid ==
    \/ req.kind = "chat" /\ req.groq_api_key = ""
    \/ req.kind = "route" /\ \/ req.start_location = <<>>
                             \/ req.end_location = <<>>
                             \/ req.groq_api_key = ""

Validated == req.kind \in {"chat", "route"} /\ ~Invalid

(* C1: when the provider answers a validated request with a non-200 status *)
(* c and body b, the error response has status c and its detail ends with  *)
(* an excerpt of b of at most 200 characters.                              *)
C1_ProviderStatusPassedThrough ==
    (pc = "done" /\ reply.kind = "http" /\ reply.status_code # 200) =>
        /\ resp.status = reply.status_code
        /\ Len(resp.detail) >= 1
        /\ LET x == resp.detail[Len(resp.detail)]
           IN  Len(x) <= ExcerptLen /\ x = SubSeq(reply.text, 1, Len(x))

(* C2: when the outbound call of a validated request times out, the error  *)
(* response has status 504 (and so never 500).                             *)
C2_TimeoutIs504 ==
    (pc = "done" /\ reply.kind = "timeout") =>
        /\ Validated
        /\ resp.status = 504
        /\ resp.status # 500

C2_Witness ==
    pc = "done" /\ reply.kind = "timeout" /\ req.kind = "route" /\ resp.status = 504

(* C3: a /chat request with an empty credential, and a /route-safety       *)
(* request with an empty start, end or credential, ends with HTTP 400, and *)
(* in no state of its handling has a call to the provider been made.       *)
C3_InvalidRequestNoCall ==
    Invalid =>
        /\ pc = "done"
        /\ resp.status = 400
        /\ sent = 0
        /\ messages = <<>>
        /\ reply = NoReply

C3_Witness ==
    /\ pc = "done"
    /\ req.kind = "route"
    /\ req.start_location # <<>>
    /\ req.end_location = <<>>
    /\ req.groq_api_key # ""
    /\ resp.status = 400
    /\ sent = 0

(* C4: for every hour the classifier returns the one band the rule order   *)
(* gives: HIGH ALERT/red for 22, 23 and 0..5; CAUTION/orange for 6, 20 and *)
(* 21; MODERATE/yellow for 18 and 19; SAFE/green for 7..17.  (The labels   *)
(* are written without their leading icon.)                                *)
C4_ClassifierBands ==
    safety # NoSafety =>
        /\ hour \in Hours
        /\ <<safety[1], safety[2]>> =
              IF hour \in (22 .. 23) \cup (0 .. 5) THEN <<"HIGH ALERT", "red">>
              ELSE IF hour \in {6, 20, 21} THEN <<"CAUTION", "orange">>
              ELSE IF hour \in {18, 19} THEN <<"MODERATE", "yellow">>
              ELSE <<"SAFE", "green">>
        /\ hour = 6 => safety[1] = "CAUTION" /\ safety[1] # "MODERATE"
        /\ hour = 19 => safety[1] = "MODERATE"
        /\ hour = 23 => safety[1] = "HIGH ALERT"

C4_Witness == safety # NoSafety /\ hour = 6 /\ safety[1] = "CAUTION"

(* C5: the message list sent to the provider for a history of n entries is *)
(* the composed system prompt, then the last min(n, 10) history entries in *)
(* their order, then the new user message: min(n, 10) + 2 entries.         *)
C5_MessageList ==
    sent > 0 =>
        LET h == call.history[1]
            n == Len(h)
            m == IF n < HistoryCap THEN n ELSE HistoryCap
        IN  /\ Len(messages) = m + 2
            /\ messages[1].role = "system"
            /\ messages[1].content \in {get_system_prompt(call.feature, t) : t \in Hours}
            /\ \A i \in 1 .. m : messages[1 + i] = h[n - m + i]
            /\ messages[m + 2] = [role |-> "user", content |-> call.message]

C5_Witness ==
    /\ pc = "inflight"
    /\ Len(call.history[1]) > HistoryCap
    /\ Len(messages) = HistoryCap + 2
    /\ messages[2] = call.history[1][Len(call.history[1]) - HistoryCap + 1]

(* C6: while an outbound call is in flight, an unrelated request that has  *)
(* arrived (/health, /safety-status) can be handled.                       *)
C6_ServesWhileInFlight ==
    /\ (pc = "inflight" /\ pending["health"] > 0) => ENABLED HealthCheck
    /\ (pc = "inflight" /\ pending["status"] > 0) => ENABLED SafetyStatus

(* C7: a validated /chat or /route-safety request has sent exactly one     *)
(* request to the provider when it ends, whatever the outcome, and ends    *)
(* with a full success response or an error response without a result.     *)
C7_ExactlyOneUpstreamRequest ==
    (pc = "done" /\ Validated) =>
        /\ sent = 1
        /\ resp.status # 0
        /\ resp.status = 200 => resp.detail = <<>>
        /\ resp.status # 200 => resp.body = <<>>

(* C8: at one clock reading, "legal", "mental", "route" and "sos" each     *)
(* select their own focus block, and every other feature value gives the   *)
(* output of "assistant".                                                  *)
C8_FocusByExactMatch ==
    (pc = "done" /\ req.kind = "prompt") =>
        LET out == messages[1].content
            f == req.feature
        IN  /\ f = Some("legal") => out.focus = "FOCUS: Legal Rights & Harassment Laws"
            /\ f = Some("mental") => out.focus = "FOCUS: Mental Health & Trauma Support"
            /\ f = Some("route") => out.focus = "FOCUS: Route Safety & Navigation"
            /\ f = Some("sos") => out.focus = "FOCUS: Emergency SOS Protocol"
            /\ f \in {Some("legal"), Some("mental"), Some("route"), Some("sos")} =>
                  out # get_system_prompt(Some("assistant"), hour)
            /\ f \notin {Some("legal"), Some("mental"), Some("route"), Some("sos")} =>
                  out = get_system_prompt(Some("assistant"), hour)
            /\ out.base = [time |-> strftime(hour)]

C8_Witness ==
    /\ pc = "done"
    /\ req.kind = "prompt"
    /\ req.feature = Some("xyz")
    /\ messages[1].content.focus = "FOCUS: General Women's Safety Assistant"

(* s holds t as a contiguous part *)
Contains(s, t) ==
    \E i \in 0 .. (Len(s) - Len(t)) : SubSeq(s, i + 1, i + Len(t)) = t

(* C9: the link is the fixed prefix, then start with every space replaced  *)
(* by "+" and nothing else changed, then ",+Chittagong,+Bangladesh", then  *)
(* the destination built the same way from end, then travelmode=walking.   *)
C9_LinkEncoding ==
    (pc = "done" /\ req.kind = "link") =>
        LET a == Len(LinkPrefix)
            b == a + Len(req.start)
            c == b + Len(CitySuffix)
            d == c + Len(DestinationKey)
            e == d + Len(req.end)
            f == e + Len(CitySuffix)
        IN  /\ Len(link) = f + Len(TravelMode)
            /\ SubSeq(link, 1, a) = LinkPrefix
            /\ \A i \in 1 .. Len(req.start) :
                  link[a + i] = IF req.start[i] = " " THEN "+" ELSE req.start[i]
            /\ SubSeq(link, b + 1, c) = CitySuffix
            /\ SubSeq(link, c + 1, d) = DestinationKey
            /\ \A i \in 1 .. Len(req.end) :
                  link[d + i] = IF req.end[i] = " " THEN "+" ELSE req.end[i]
            /\ SubSeq(link, e + 1, f) = CitySuffix
            /\ SubSeq(link, f + 1, Len(link)) = TravelMode
            /\ (req.start = NewMarket /\ req.end = GECCircle) =>
                  /\ Contains(link, <<"N", "e", "w", "+", "M", "a", "r", "k", "e", "t">>
                                    \o CitySuffix)
                  /\ Contains(link, <<"G", "E", "C", "+", "C", "i", "r", "c", "l", "e">>
                                    \o CitySuffix)
                  /\ Contains(link, <<"t", "r", "a", "v", "e", "l", "m", "o", "d", "e",
                                      "=", "w", "a", "l", "k", "i", "n", "g">>)

C9_Witness ==
    /\ pc = "done"
    /\ req.kind = "link"
    /\ req.start = NewMarket
    /\ req.end = GECCircle
    /\ Contains(link, <<"N", "e", "w", "+", "M", "a", "r", "k", "e", "t", ",", "+", "C">>)

(* C10: for every call of get_safety_status, the label it returns is the   *)
(* band of the hour its returned timestamp shows.                          *)
C10_LabelMatchesTimestamp ==
    safety # NoSafety =>
        safety[1] = get_safety_status(HourOf(safety[4]), safety[4])[1]

=============================================================================
